---- MODULE Spec2Model ----
(***************************************************************************)
(* BackstubenBot: the voice channel pool of src/voice.rs                   *)
(* (VoiceChannelManager) and the event handlers of src/main.rs that drive  *)
(* it.  The remote guild (channels, voice occupancy, positions) is the     *)
(* environment; every await of the code is one step of the model.          *)
(***************************************************************************)
EXTENDS Integers, Sequences, FiniteSets, TLC

VARIABLES
    guild,      \* remote channels: id -> [last, kind, parent, user_limit]
    occupied,   \* ids of the voice channels with at least one member (ctx.cache)
    position,   \* remote display position of every channel of the guild
    nextId,     \* the id the remote side gives to the next created channel
    cache,      \* channel_cache: VoiceChannelType -> Vec<ChannelId> (a HashMap)
    lock,       \* who holds channel_cache's write lock across awaits
    init,       \* the task running Handler::ready / initialize
    tasks,      \* the tasks running check_joined / check_left
    events,     \* number of voice_state_update dispatches so far
    scenario    \* which guild the process was started against

vars == <<guild, occupied, position, nextId, cache, lock, init, tasks, events, scenario>>

----------------------------------------------------------------------------
(* Bounds of the model *)

\* voice_state_update dispatches in one behaviour
MaxEvents == 2
\* handler tasks that can be in flight at the same time
NumTasks == 2
\* distinct iteration orders of the HashMap that guild_id.channels() returns
NumSeeds == 2
\* READY events (gateway sessions) in one behaviour of SpecReconnect
MaxReady == 2

----------------------------------------------------------------------------
(* Option<T>: None is the empty sequence, Some(x) the one-element sequence *)

None == <<>>
Some(x) == <<x>>
IsSome(o) == o # <<>>
Unwrap(o) == o[1]
UnwrapOr(o, d) == IF o = <<>> THEN d ELSE o[1]

----------------------------------------------------------------------------
(* VoiceChannelType *)

VoiceChannelType == {"Unlimited", "Two", "Three", "Four", "Five"}

\* VoiceChannelType::all(): the order initialize creates missing tiers in
AllTypes == <<"Unlimited", "Two", "Three", "Four", "Five">>

\* The last character of a channel name is "inf" (the infinity sign), "2", "3",
\* "4", "5", or "x" for any character that is no tier identifier.

identifier(t) ==
    CASE t = "Unlimited" -> "inf"
      [] t = "Two"       -> "2"
      [] t = "Three"     -> "3"
      [] t = "Four"      -> "4"
      [] t = "Five"      -> "5"

user_limit(t) ==
    CASE t = "Unlimited" -> None
      [] t = "Two"       -> Some(2)
      [] t = "Three"     -> Some(3)
      [] t = "Four"      -> Some(4)
      [] t = "Five"      -> Some(5)

by_identifier_or_default(g) ==
    CASE g = "inf" -> Some("Unlimited")
      [] g = "2"   -> Some("Two")
      [] g = "3"   -> Some("Three")
      [] g = "4"   -> Some("Four")
      [] g = "5"   -> Some("Five")
      [] OTHER     -> Some("Unlimited")

by_identifier(g) ==
    CASE g = "inf" -> Some("Unlimited")
      [] g = "2"   -> Some("Two")
      [] g = "3"   -> Some("Three")
      [] g = "4"   -> Some("Four")
      [] g = "5"   -> Some("Five")
      [] OTHER     -> None

\* check_joined's bound on the length of a tier's list
PoolCap == 6

----------------------------------------------------------------------------
(* The remote guild *)

\* A GuildChannel as the code reads it: the last character of its name, its
\* kind, whether parent_id is the managed category, and its user_limit.
Channel(last, kind, parent, limit) ==
    [last |-> last, kind |-> kind, parent |-> parent, user_limit |-> limit]

\* The builder of create_channel: a voice channel of the category whose name
\* ends with the tier's identifier and whose limit is the tier's, if any.
create_channel(t) == Channel(identifier(t), "voice", TRUE, user_limit(t))

NoGuild == [id \in {} |-> Channel("x", "text", FALSE, None)]

\* The guilds the process is started against.
\*  1: an empty category.
\*  2: a category that already holds two "4" voice channels (both occupied), a
\*     text channel and an occupied unmanaged voice channel, a "2" voice channel
\*     created by hand without a limit, and a "4" voice channel outside the
\*     category.
\*  3: a category with five "4" voice channels, all occupied, and one channel
\*     for every other tier.
Scenarios == <<
    [guild |-> NoGuild, occupied |-> {}],
    [guild |-> (1 :> Channel("4", "voice", TRUE, Some(4)))
            @@ (2 :> Channel("4", "voice", TRUE, Some(4)))
            @@ (3 :> Channel("4", "text", TRUE, None))
            @@ (4 :> Channel("x", "voice", TRUE, Some(3)))
            @@ (5 :> Channel("2", "voice", TRUE, None))
            @@ (6 :> Channel("4", "voice", FALSE, Some(4))),
     occupied |-> {1, 2, 4}],
    [guild |-> (1 :> Channel("4", "voice", TRUE, Some(4)))
            @@ (2 :> Channel("4", "voice", TRUE, Some(4)))
            @@ (3 :> Channel("4", "voice", TRUE, Some(4)))
            @@ (4 :> Channel("4", "voice", TRUE, Some(4)))
            @@ (5 :> Channel("4", "voice", TRUE, Some(4)))
            @@ (6 :> Channel("inf", "voice", TRUE, None))
            @@ (7 :> Channel("2", "voice", TRUE, Some(2)))
            @@ (8 :> Channel("3", "voice", TRUE, Some(3)))
            @@ (9 :> Channel("5", "voice", TRUE, Some(5))),
     occupied |-> {1, 2, 3, 4, 5}] >>

\* The key a HashMap built with the given seed orders a channel id by.
HashMult == <<1, 2, 5, 7, 11>>
HashKey(seed, id) == (id * HashMult[seed]) % 17

\* guild_id.channels(): the values of a fresh HashMap, in its iteration order.
RECURSIVE Values(_, _)
Values(seed, ids) ==
    IF ids = {} THEN <<>>
    ELSE LET first == CHOOSE a \in ids :
                          \A b \in ids : HashKey(seed, a) <= HashKey(seed, b)
         IN  <<first>> \o Values(seed, ids \ {first})

\* initialize's filter: the channels whose parent_id is the category
channels_in_category(g, listing) ==
    SelectSeq(listing, LAMBDA id : g[id].parent)

\* sort_channels' filter: the voice channels whose parent_id is the category,
\* each as the listing returned it (its id and its user_limit).
voice_channels(g, listing) ==
    LET kept == SelectSeq(listing, LAMBDA id : g[id].kind = "voice" /\ g[id].parent)
    IN  [k \in 1..Len(kept) |-> [id |-> kept[k], user_limit |-> g[kept[k]].user_limit]]

----------------------------------------------------------------------------
(* channel_cache *)

\* cache.get(&t).cloned().unwrap_or_default()
Get(c, t) == IF t \in DOMAIN c THEN c[t] ELSE <<>>

PushFront(c, t, id) ==
    [k \in DOMAIN c \cup {t} |-> IF k = t THEN <<id>> \o Get(c, t) ELSE c[k]]

\* cache.entry(t).or_insert_with(Vec::new).push(id)
Push(c, t, id) ==
    [k \in DOMAIN c \cup {t} |-> IF k = t THEN Append(Get(c, t), id) ELSE c[k]]

\* cache.entry(t).or_insert_with(Vec::new)
Entry(c, t) == [k \in DOMAIN c \cup {t} |-> Get(c, k)]

\* Vec::retain(|&id| id != channel_id)
RECURSIVE Retain(_, _)
Retain(seq, id) ==
    IF seq = <<>> THEN <<>>
    ELSE (IF Head(seq) # id THEN <<Head(seq)>> ELSE <<>>) \o Retain(Tail(seq), id)

Range(seq) == {seq[k] : k \in 1..Len(seq)}

\* The guard task i gets from channel_cache.read().await ("read") or
\* channel_cache.write().await ("write").
Guard(mode, i) == <<mode, i>>

forget(guard) == guard

\* drop(cache), or the guard going out of scope: the lock is free again.
drop(guard) == "free"

----------------------------------------------------------------------------
(* sort_channels: the order it computes *)

\* a.user_limit.unwrap_or(0)
SortKey(ch) == UnwrapOr(ch.user_limit, 0)

\* One insertion of the stable sort: x goes behind every element whose key is
\* not greater than its own.
RECURSIVE InsertBeforeEqual(_, _)
InsertBeforeEqual(sorted, x) ==
    IF sorted = <<>> THEN <<x>>
    ELSE IF SortKey(Head(sorted)) < SortKey(x)
         THEN <<Head(sorted)>> \o InsertBeforeEqual(Tail(sorted), x)
         ELSE <<x>> \o sorted

RECURSIVE Insert(_, _)
Insert(sorted, x) ==
    IF sorted = <<>> THEN <<x>>
    ELSE IF SortKey(Head(sorted)) <= SortKey(x)
         THEN <<Head(sorted)>> \o Insert(Tail(sorted), x)
         ELSE <<x>> \o sorted

RECURSIVE SortInto(_, _)
SortInto(acc, seq) ==
    IF seq = <<>> THEN acc
    ELSE SortInto(Insert(acc, Head(seq)), Tail(seq))

\* voice_channels.sort_by(|a, b| limit_a.cmp(&limit_b)): a stable sort
sort_by(seq) == SortInto(<<>>, seq)

\* positions: (channel.id, index) for every channel of the sorted list
positions(sorted) == [k \in 1..Len(sorted) |-> <<sorted[k].id, k - 1>>]

\* The request sort_channels sends when the listing is a HashMap of the given
\* seed: filter, sort, enumerate.
sort_channels(g, seed) ==
    positions(sort_by(voice_channels(g, Values(seed, DOMAIN g))))

\* reorder_channels: the channel at index k of the request gets position k
\* (from 0); channels the request does not name keep theirs.
Reordered(pos, request) ==
    [id \in DOMAIN pos |->
        IF \E k \in 1..Len(request) : request[k][1] = id
        THEN request[CHOOSE k \in 1..Len(request) : request[k][1] = id][2]
        ELSE pos[id]]

----------------------------------------------------------------------------
(* initialize *)

\* The loop over channels_in_category: every voice channel whose last
\* character names a tier is pushed to that tier's list.
RECURSIVE LoadExisting(_, _, _)
LoadExisting(c, g, listing) ==
    IF listing = <<>> THEN c
    ELSE LET id == Head(listing)
             t  == by_identifier(g[id].last)
         IN  IF g[id].kind = "voice" /\ IsSome(t)
             THEN LoadExisting(Push(c, Unwrap(t), id), g, Tail(listing))
             ELSE LoadExisting(c, g, Tail(listing))

NextTier(c, k) == k

\* The loop over VoiceChannelType::all(): the index of the next tier, from k
\* on, that has no key or an empty list; Len(AllTypes) + 1 when there is none.
RECURSIVE NextMissing(_, _)
NextMissing(c, k) ==
    IF k > Len(AllTypes) THEN k
    ELSE IF Get(c, AllTypes[k]) = <<>> THEN k
         ELSE NextMissing(c, k + 1)

InitTask(pc, idx, created) ==
    [pc |-> pc, idx |-> idx, created |-> created, session |-> 1]

IdleTask ==
    [pc |-> "idle", kind |-> "none", ch |-> 0, tier |-> "none", cur |-> <<>>,
     idx |-> 0, found_empty |-> FALSE, newId |-> 0, listed |-> <<>>, sorted |-> <<>>]

Tasks == 1..NumTasks
Seeds == 1..NumSeeds

Init ==
    /\ scenario \in 1..Len(Scenarios)
    /\ guild = Scenarios[scenario].guild
    /\ occupied = Scenarios[scenario].occupied
    /\ position = [id \in DOMAIN guild |-> id - 1]
    /\ nextId = Cardinality(DOMAIN guild) + 1
    /\ cache = [t \in {} |-> <<>>]
    /\ lock = "free"
    /\ init = InitTask("idle", 0, <<>>)
    /\ tasks = [i \in Tasks |-> IdleTask]
    /\ events = 0

\* Handler::ready: the gateway's first event.  initialize takes the write lock
\* of channel_cache before its first await.
Ready ==
    /\ init.pc = "idle"
    /\ lock = "free"
    /\ lock' = "initialize"
    /\ init' = [init EXCEPT !.pc = "to_channel"]
    /\ UNCHANGED <<guild, occupied, position, nextId, cache, tasks, events, scenario>>

\* An Err (or a None turned into one by ok_or_else) leaves initialize through
\* `?`: the guard is dropped, Handler::ready logs the error.
InitFailed ==
    /\ lock' = "free"
    /\ init' = [init EXCEPT !.pc = "failed"]

\* self.category_id.to_channel(..).await?.guild().ok_or_else(..)?
InitToChannel ==
    /\ init.pc = "to_channel"
    /\ \E ok \in BOOLEAN :
         IF ok THEN /\ init' = [init EXCEPT !.pc = "channels"]
                    /\ UNCHANGED lock
               ELSE InitFailed
    /\ UNCHANGED <<guild, occupied, position, nextId, cache, tasks, events, scenario>>

\* guild_id.channels(..).await?, the loop that loads the existing channels and
\* the loop over the tiers up to its first create_channel call.
InitChannels ==
    /\ init.pc = "channels"
    /\ \E ok \in BOOLEAN, seed \in Seeds :
         IF ok
         THEN LET listing == channels_in_category(guild, Values(seed, DOMAIN guild))
                  loaded  == LoadExisting(cache, guild, listing)
                  k       == NextMissing(loaded, 1)
              IN  /\ cache' = loaded
                  /\ IF k <= Len(AllTypes)
                     THEN /\ init' = [init EXCEPT !.pc = "create", !.idx = k]
                          /\ UNCHANGED lock
                     ELSE /\ init' = [init EXCEPT !.pc = "sort", !.idx = k]
                          /\ lock' = "free"
         ELSE InitFailed /\ UNCHANGED cache
    /\ UNCHANGED <<guild, occupied, position, nextId, tasks, events, scenario>>

InitCreateSameId ==
    /\ init.pc = "create"
    /\ LET t      == AllTypes[init.idx]
           id     == IF init.created = <<>> THEN nextId ELSE init.created[1].id
           pushed == Push(cache, t, id)
           k      == NextMissing(pushed, init.idx + 1)
       IN  /\ guild' = guild @@ (nextId :> create_channel(t))
           /\ position' = position @@ (nextId :> Cardinality(DOMAIN guild))
           /\ nextId' = nextId + 1
           /\ cache' = pushed
           /\ init' = [init EXCEPT !.pc = IF k <= Len(AllTypes) THEN "create" ELSE "sort",
                                   !.idx = k,
                                   !.created = Append(@, [id |-> nextId, tier |-> t])]
           /\ lock' = IF k <= Len(AllTypes) THEN lock ELSE "free"
    /\ UNCHANGED <<occupied, tasks, events, scenario>>

\* self.create_channel(..).await? for the tier at init.idx, the push of the
\* new id, and the loop up to the next create_channel call or to drop(cache).
InitCreate ==
    /\ init.pc = "create"
    /\ \E ok \in BOOLEAN :
         IF ok
         THEN LET t      == AllTypes[init.idx]
                  pushed == Push(cache, t, nextId)
                  k      == NextMissing(pushed, init.idx + 1)
              IN  /\ guild' = guild @@ (nextId :> create_channel(t))
                  /\ position' = position @@ (nextId :> Cardinality(DOMAIN guild))
                  /\ nextId' = nextId + 1
                  /\ cache' = pushed
                  /\ IF k <= Len(AllTypes)
                     THEN /\ init' = [init EXCEPT !.idx = k,
                                         !.created = Append(@, [id |-> nextId, tier |-> t])]
                          /\ UNCHANGED lock
                     ELSE /\ init' = [init EXCEPT !.pc = "sort", !.idx = k,
                                         !.created = Append(@, [id |-> nextId, tier |-> t])]
                          /\ lock' = "free"
         ELSE InitFailed /\ UNCHANGED <<guild, position, nextId, cache>>
    /\ UNCHANGED <<occupied, tasks, events, scenario>>

\* self.sort_channels(..).await?: the listing, the sort and the reorder
\* request.  An Err of the listing fails initialize; an Err of the reorder is
\* only logged.  The display positions are read by no code path, so the two
\* awaits of sort_channels are one step here (SortSpec takes them apart).
InitSort ==
    /\ init.pc = "sort"
    /\ \E listOk \in BOOLEAN, reorderOk \in BOOLEAN, seed \in Seeds :
         /\ init' = [init EXCEPT !.pc = IF listOk THEN "ok" ELSE "failed"]
         /\ position' = IF listOk /\ reorderOk
                        THEN Reordered(position, sort_channels(guild, seed))
                        ELSE position
    /\ UNCHANGED <<guild, occupied, nextId, cache, lock, tasks, events, scenario>>

----------------------------------------------------------------------------
(* Handler::voice_state_update *)

FreeTask == CHOOSE i \in Tasks : tasks[i].pc = "idle" /\ \A j \in Tasks : tasks[j].pc = "idle" => i <= j

Dispatch(kind, c) ==
    tasks' = [tasks EXCEPT ![FreeTask] =
                 [IdleTask EXCEPT !.pc = "to_channel", !.kind = kind, !.ch = c]]

\* A member enters voice channel c (or changes state in it): new.channel_id is
\* Some(c), and check_joined(c) runs in a task of its own.  The cache holds the
\* new voice state before the handler is dispatched.
JoinEvent(c) ==
    /\ init.pc # "idle"
    /\ events < MaxEvents
    /\ \E i \in Tasks : tasks[i].pc = "idle"
    /\ c \in DOMAIN guild /\ guild[c].kind = "voice"
    /\ occupied' = occupied \cup {c}
    /\ events' = events + 1
    /\ Dispatch("join", c)
    /\ UNCHANGED <<guild, position, nextId, cache, lock, init, scenario>>

\* A member leaves voice channel c: old.channel_id is Some(c) and differs from
\* new.channel_id, and check_left(c) runs.  Other members may remain in c.
LeaveEvent(c) ==
    /\ init.pc # "idle"
    /\ events < MaxEvents
    /\ \E i \in Tasks : tasks[i].pc = "idle"
    /\ c \in occupied
    /\ \E remain \in BOOLEAN : occupied' = IF remain THEN occupied ELSE occupied \ {c}
    /\ events' = events + 1
    /\ Dispatch("leave", c)
    /\ UNCHANGED <<guild, position, nextId, cache, lock, init, scenario>>

Return(i) == tasks' = [tasks EXCEPT ![i] = IdleTask]

MembersIgnored(c) == TRUE

\* channel.members(&ctx.cache) is empty
MembersEmpty(c) == c \notin occupied

----------------------------------------------------------------------------
(* check_joined *)

\* channel_id.to_channel(..).await?.guild()..? and the match on by_identifier
JoinToChannel(i) ==
    /\ tasks[i].pc = "to_channel" /\ tasks[i].kind = "join"
    /\ \E ok \in BOOLEAN :
         /\ ok => tasks[i].ch \in DOMAIN guild
         /\ IF ok /\ IsSome(by_identifier(guild[tasks[i].ch].last))
            THEN tasks' = [tasks EXCEPT ![i].pc = "read",
                              ![i].tier = Unwrap(by_identifier(guild[tasks[i].ch].last))]
            ELSE Return(i)
    /\ UNCHANGED <<guild, occupied, position, nextId, cache, lock, init, events, scenario>>

OverCap(current_channels) == Len(current_channels) > PoolCap

\* current_channels.len() >= 6
AtCap(current_channels) == Len(current_channels) >= PoolCap

\* The read guard: current_channels is a clone of the tier's list; the guard
\* is dropped before the length test.
JoinRead(i) ==
    /\ tasks[i].pc = "read"
    /\ lock = "free"
    /\ LET current_channels == Get(cache, tasks[i].tier)
       IN  IF AtCap(current_channels)
           THEN Return(i)
           ELSE tasks' = [tasks EXCEPT ![i].cur = current_channels,
                             ![i].idx = 1,
                             ![i].pc = IF current_channels = <<>> THEN "create" ELSE "probe"]
    /\ lock' = drop(Guard("read", i))
    /\ UNCHANGED <<guild, occupied, position, nextId, cache, init, events, scenario>>

JoinProbeNoBreak(i) ==
    /\ tasks[i].pc = "probe"
    /\ \E ok \in BOOLEAN :
         LET ch_id == tasks[i].cur[tasks[i].idx]
         IN  /\ ok => ch_id \in DOMAIN guild
             /\ tasks' = [tasks EXCEPT ![i].idx = @ + 1,
                               ![i].found_empty = @ \/ (ok /\ MembersEmpty(ch_id)),
                               ![i].pc = IF tasks[i].idx = Len(tasks[i].cur)
                                         THEN "create" ELSE "probe"]
    /\ UNCHANGED <<guild, occupied, position, nextId, cache, lock, init, events, scenario>>

\* One iteration of the loop over current_channels: ch_id.to_channel(..).await
\* and, when it is Ok, the members test, which sets found_empty and breaks; a
\* failed fetch only skips the channel.
JoinProbe(i) ==
    /\ tasks[i].pc = "probe"
    /\ \E ok \in BOOLEAN :
         LET ch_id == tasks[i].cur[tasks[i].idx]
         IN  /\ ok => ch_id \in DOMAIN guild
             /\ IF ok /\ MembersEmpty(ch_id)
                THEN tasks' = [tasks EXCEPT ![i].found_empty = TRUE, ![i].pc = "found"]
                ELSE tasks' = [tasks EXCEPT ![i].idx = @ + 1,
                                  ![i].pc = IF tasks[i].idx = Len(tasks[i].cur)
                                            THEN "create" ELSE "probe"]
    /\ UNCHANGED <<guild, occupied, position, nextId, cache, lock, init, events, scenario>>

\* `if !found_empty` after the loop has found an empty channel: Ok(()).  The
\* test is a step of its own so that what the loop found is part of the state.
JoinFoundEmpty(i) ==
    /\ tasks[i].pc = "found"
    /\ Return(i)
    /\ UNCHANGED <<guild, occupied, position, nextId, cache, lock, init, events, scenario>>

\* self.create_channel(..).await?
JoinCreate(i) ==
    /\ tasks[i].pc = "create"
    /\ \E ok \in BOOLEAN :
         IF ok
         THEN /\ guild' = guild @@ (nextId :> create_channel(tasks[i].tier))
              /\ position' = position @@ (nextId :> Cardinality(DOMAIN guild))
              /\ nextId' = nextId + 1
              /\ tasks' = [tasks EXCEPT ![i].pc = "push", ![i].newId = nextId]
         ELSE /\ Return(i)
              /\ UNCHANGED <<guild, position, nextId>>
    /\ UNCHANGED <<occupied, cache, lock, init, events, scenario>>

JoinPushRecheck(i) ==
    /\ tasks[i].pc = "push"
    /\ lock = "free"
    /\ cache' = IF Get(cache, tasks[i].tier) = tasks[i].cur
                THEN Push(cache, tasks[i].tier, tasks[i].newId)
                ELSE cache
    /\ tasks' = [tasks EXCEPT ![i].pc = "sort"]
    /\ lock' = drop(Guard("write", i))
    /\ UNCHANGED <<guild, occupied, position, nextId, init, events, scenario>>

\* The write guard: the new id is pushed, whatever the list has become since
\* it was read, and the guard dropped.
JoinPush(i) ==
    /\ tasks[i].pc = "push"
    /\ lock = "free"
    /\ cache' = Push(cache, tasks[i].tier, tasks[i].newId)
    /\ tasks' = [tasks EXCEPT ![i].pc = "sort"]
    /\ lock' = drop(Guard("write", i))
    /\ UNCHANGED <<guild, occupied, position, nextId, init, events, scenario>>

----------------------------------------------------------------------------
(* check_left *)

\* channel_id.to_channel(..).await?.guild()..?, the match on by_identifier and
\* the members test
LeaveToChannel(i) ==
    /\ tasks[i].pc = "to_channel" /\ tasks[i].kind = "leave"
    /\ \E ok \in BOOLEAN :
         /\ ok => tasks[i].ch \in DOMAIN guild
         /\ IF /\ ok
               /\ IsSome(by_identifier(guild[tasks[i].ch].last))
               /\ MembersEmpty(tasks[i].ch)
            THEN tasks' = [tasks EXCEPT ![i].pc = "retain",
                              ![i].tier = Unwrap(by_identifier(guild[tasks[i].ch].last))]
            ELSE Return(i)
    /\ UNCHANGED <<guild, occupied, position, nextId, cache, lock, init, events, scenario>>

NotEmpty(current_channels) == Len(current_channels) >= 1

\* current_channels.len() > 1
MoreThanOne(current_channels) == Len(current_channels) > 1

\* The write guard: the entry of the tier, the length test and retain.  The
\* guard is dropped before the delete call, or at the return when nothing is
\* removed.
LeaveRetain(i) ==
    /\ tasks[i].pc = "retain"
    /\ lock = "free"
    /\ LET t == tasks[i].tier
           current_channels == Get(cache, t)
       IN  IF MoreThanOne(current_channels)
           THEN /\ cache' = [Entry(cache, t) EXCEPT ![t] = Retain(current_channels, tasks[i].ch)]
                /\ tasks' = [tasks EXCEPT ![i].pc = "delete"]
           ELSE /\ cache' = Entry(cache, t)
                /\ Return(i)
    /\ lock' = drop(Guard("write", i))
    /\ UNCHANGED <<guild, occupied, position, nextId, init, events, scenario>>

LeaveDeleteRollback(i) ==
    /\ tasks[i].pc = "delete"
    /\ \E ok \in BOOLEAN :
         /\ ok => tasks[i].ch \in DOMAIN guild
         /\ IF ok
            THEN LET rest == DOMAIN guild \ {tasks[i].ch}
                 IN  /\ guild' = [id \in rest |-> guild[id]]
                     /\ position' = [id \in rest |-> position[id]]
                     /\ occupied' = occupied \ {tasks[i].ch}
                     /\ tasks' = [tasks EXCEPT ![i].pc = "sort"]
                     /\ UNCHANGED cache
            ELSE /\ Return(i)
                 /\ cache' = Push(cache, tasks[i].tier, tasks[i].ch)
                 /\ UNCHANGED <<guild, position, occupied>>
    /\ UNCHANGED <<nextId, lock, init, events, scenario>>

\* channel_id.delete(..).await: an Err is logged and the handler returns Ok.
LeaveDelete(i) ==
    /\ tasks[i].pc = "delete"
    /\ \E ok \in BOOLEAN :
         /\ ok => tasks[i].ch \in DOMAIN guild
         /\ IF ok
            THEN LET rest == DOMAIN guild \ {tasks[i].ch}
                 IN  /\ guild' = [id \in rest |-> guild[id]]
                     /\ position' = [id \in rest |-> position[id]]
                     /\ occupied' = occupied \ {tasks[i].ch}
                     /\ tasks' = [tasks EXCEPT ![i].pc = "sort"]
            ELSE /\ Return(i)
                 /\ UNCHANGED <<guild, position, occupied>>
    /\ UNCHANGED <<nextId, cache, lock, init, events, scenario>>

----------------------------------------------------------------------------
(* sort_channels as called by check_joined and check_left *)

SortChannels(i) ==
    /\ tasks[i].pc = "sort"
    /\ \E listOk \in BOOLEAN, reorderOk \in BOOLEAN, seed \in Seeds :
         position' = IF listOk /\ reorderOk
                     THEN Reordered(position, sort_channels(guild, seed))
                     ELSE position
    /\ Return(i)
    /\ UNCHANGED <<guild, occupied, nextId, cache, lock, init, events, scenario>>

----------------------------------------------------------------------------

Next ==
    \/ Ready
    \/ InitToChannel
    \/ InitChannels
    \/ InitCreate
    \/ InitSort
    \/ \E c \in DOMAIN guild : JoinEvent(c)
    \/ \E c \in DOMAIN guild : LeaveEvent(c)
    \/ \E i \in Tasks : JoinToChannel(i)
    \/ \E i \in Tasks : JoinRead(i)
    \/ \E i \in Tasks : JoinProbe(i)
    \/ \E i \in Tasks : JoinFoundEmpty(i)
    \/ \E i \in Tasks : JoinCreate(i)
    \/ \E i \in Tasks : JoinPush(i)
    \/ \E i \in Tasks : LeaveToChannel(i)
    \/ \E i \in Tasks : LeaveRetain(i)
    \/ \E i \in Tasks : LeaveDelete(i)
    \/ \E i \in Tasks : SortChannels(i)

Spec == Init /\ [][Next]_vars

----------------------------------------------------------------------------
(* The gateway session is replaced (a reconnect that cannot resume): READY  *)
(* is dispatched again and Handler::ready calls initialize on the same      *)
(* VoiceChannelManager, whose channel_cache is what the handlers left.      *)

Reready ==
    /\ init.pc \in {"ok", "failed"}
    /\ init.session < MaxReady
    /\ lock = "free"
    /\ lock' = "initialize"
    /\ init' = [init EXCEPT !.pc = "to_channel", !.idx = 0, !.session = @ + 1]
    /\ UNCHANGED <<guild, occupied, position, nextId, cache, tasks, events, scenario>>

ReconnectNext == Next \/ Reready

\* The process is started against the empty category.
ReconnectInit == Init /\ scenario = 1

SpecReconnect == ReconnectInit /\ [][ReconnectNext]_vars

----------------------------------------------------------------------------
(* sort_channels on its own: its two awaits as two steps of task 1, from any *)
(* guild made of the channels of SortPool.                                  *)

SortPool ==
       (1 :> Channel("inf", "voice", TRUE, None))
    @@ (2 :> Channel("4", "voice", TRUE, Some(4)))
    @@ (3 :> Channel("2", "voice", TRUE, Some(2)))
    @@ (4 :> Channel("x", "voice", TRUE, Some(2)))
    @@ (9 :> Channel("4", "voice", TRUE, Some(4)))
    @@ (10 :> Channel("4", "text", TRUE, None))
    @@ (11 :> Channel("2", "voice", FALSE, Some(2)))
    @@ (12 :> Channel("2", "voice", TRUE, None))

SortInit ==
    /\ scenario = 1
    /\ \E ids \in SUBSET DOMAIN SortPool : guild = [id \in ids |-> SortPool[id]]
    /\ occupied = {}
    /\ position = [id \in DOMAIN guild |-> id - 1]
    /\ nextId = 13
    /\ cache = [t \in {} |-> <<>>]
    /\ lock = "free"
    /\ init = InitTask("ok", 0, <<>>)
    /\ tasks = [i \in Tasks |-> IF i = 1 THEN [IdleTask EXCEPT !.pc = "sort"] ELSE IdleTask]
    /\ events = 0

\* guild_id.channels(..).await?, the filter and the sort
SortListing ==
    /\ tasks[1].pc = "sort"
    /\ \E ok \in BOOLEAN, seed \in Seeds :
         IF ok
         THEN LET listed == voice_channels(guild, Values(seed, DOMAIN guild))
              IN  tasks' = [tasks EXCEPT ![1].pc = "reorder", ![1].listed = listed,
                                ![1].sorted = sort_by(listed)]
         ELSE Return(1)
    /\ UNCHANGED <<guild, occupied, position, nextId, cache, lock, init, events, scenario>>

\* guild_id.reorder_channels(.., positions).await
SortReorder ==
    /\ tasks[1].pc = "reorder"
    /\ \E ok \in BOOLEAN :
         position' = IF ok THEN Reordered(position, positions(tasks[1].sorted))
                           ELSE position
    /\ Return(1)
    /\ UNCHANGED <<guild, occupied, nextId, cache, lock, init, events, scenario>>

SortNext == SortListing \/ SortReorder

SortSpec == SortInit /\ [][SortNext]_vars

----------------------------------------------------------------------------
(* Properties *)

\* The step is one of task i.
StepOf(i) == tasks'[i] # tasks[i]

\* The last character of the channel's name is the identifier of some tier.
Managed(c) == \E t \in VoiceChannelType : identifier(t) = guild[c].last

C2_AtMostSixPerTier ==
    init.pc = "ok" => \A t \in VoiceChannelType : Len(Get(cache, t)) <= 6

\* C3: no channel id is in the lists of two different tiers.
C3_TiersDisjoint ==
    \A t1 \in DOMAIN cache, t2 \in DOMAIN cache :
        t1 # t2 => Range(cache[t1]) \cap Range(cache[t2]) = {}

\* All five tiers are loaded and check_joined has pushed a created channel.
C3_Witness ==
    /\ init.pc = "ok"
    /\ DOMAIN cache = VoiceChannelType
    /\ \E i \in Tasks : /\ tasks[i].kind = "join"
                        /\ tasks[i].pc = "sort"
                        /\ tasks[i].newId \in Range(cache[tasks[i].tier])

\* C4: the handler of a join or leave event for an existing channel whose
\* name ends with no tier's identifier returns at once: channel_cache, the
\* channels of the guild and their positions stay as they are and the task
\* never gets to a create, delete or reorder call.
C4_UnmanagedIsNoOp ==
    [][\A i \in Tasks :
         ( /\ StepOf(i)
           /\ tasks[i].pc = "to_channel"
           /\ tasks[i].ch \in DOMAIN guild
           /\ ~Managed(tasks[i].ch) )
         => /\ tasks'[i] = IdleTask
            /\ UNCHANGED <<cache, guild, position, nextId>>]_vars

\* A join and a leave handler are both about to look at an unmanaged channel.
C4_Witness ==
    \E i \in Tasks, j \in Tasks :
        /\ init.pc = "ok"
        /\ tasks[i].pc = "to_channel" /\ tasks[i].kind = "join"
        /\ tasks[j].pc = "to_channel" /\ tasks[j].kind = "leave"
        /\ tasks[i].ch \in DOMAIN guild /\ ~Managed(tasks[i].ch)
        /\ tasks[j].ch \in DOMAIN guild /\ ~Managed(tasks[j].ch)

\* C5: no step of a check_left task removes the id of a channel that is the
\* only member of its tier's list, or deletes that channel from the guild; in
\* particular the step under the write guard changes nothing when the list
\* has one member.
C5_LastChannelKept ==
    [][\A i \in Tasks, t \in VoiceChannelType :
         ( /\ StepOf(i)
           /\ tasks[i].kind = "leave"
           /\ Len(Get(cache, t)) = 1 )
         => /\ Get(cache', t) = Get(cache, t)
            /\ Get(cache, t)[1] \in DOMAIN guild => Get(cache, t)[1] \in DOMAIN guild'
            /\ (tasks[i].pc = "retain" /\ tasks[i].tier = t) => tasks'[i] = IdleTask]_vars

\* Two check_left tasks of one tier: one has removed its channel and is about
\* to delete it, the other holds the empty channel that is now the last one.
C5_Witness ==
    \E i \in Tasks, j \in Tasks :
        /\ init.pc = "ok"
        /\ tasks[i].pc = "retain"
        /\ Get(cache, tasks[i].tier) = <<tasks[i].ch>>
        /\ tasks[i].ch \notin occupied
        /\ tasks[j].pc = "delete"
        /\ tasks[j].tier = tasks[i].tier

\* The capacity of each tier; <<>> is no limit.
TierCapacity ==
    [Unlimited |-> <<>>, Two |-> <<2>>, Three |-> <<3>>, Four |-> <<4>>, Five |-> <<5>>]

\* The last character of the names of each tier's channels.
TierGlyph ==
    [Unlimited |-> "inf", Two |-> "2", Three |-> "3", Four |-> "4", Five |-> "5"]

\* The guild held a voice channel of tier t in the category when the process
\* started.
ExistingOfTier(t) ==
    LET g == Scenarios[scenario].guild
    IN  \E id \in DOMAIN g :
            g[id].kind = "voice" /\ g[id].parent /\ g[id].last = TierGlyph[t]

CreatedFor(t) == {k \in 1..Len(init.created) : init.created[k].tier = t}

\* C6: when initialize has returned Ok it has created exactly one channel for
\* every tier that had no voice channel in the category and none for the
\* others; every channel it created (and that still exists) is a voice channel
\* of the category named after its tier and limited to the tier's capacity;
\* started on the empty category it leaves, before any event, exactly five
\* channels, one per tier.
C6_InitializeCreatesMissingTiers ==
    init.pc = "ok" =>
        /\ \A t \in VoiceChannelType :
               Cardinality(CreatedFor(t)) = IF ExistingOfTier(t) THEN 0 ELSE 1
        /\ \A k \in 1..Len(init.created) :
               LET c == init.created[k]
               IN  c.id \in DOMAIN guild =>
                       /\ guild[c.id].kind = "voice"
                       /\ guild[c.id].parent
                       /\ guild[c.id].last = TierGlyph[c.tier]
                       /\ guild[c.id].user_limit = TierCapacity[c.tier]
        /\ (scenario = 1 /\ events = 0) =>
               /\ Cardinality(DOMAIN guild) = 5
               /\ \A t \in VoiceChannelType :
                      /\ Len(Get(cache, t)) = 1
                      /\ cache[t][1] \in DOMAIN guild
                      /\ guild[cache[t][1]].last = TierGlyph[t]
                      /\ guild[cache[t][1]].user_limit = TierCapacity[t]

\* initialize has returned Ok on the empty category, before any event.
C6_Witness ==
    /\ init.pc = "ok"
    /\ scenario = 1
    /\ events = 0
    /\ Len(init.created) = 5

\* C7: a check_joined task that has read fewer than 6 channels goes on to
\* create_channel when it has found every channel of its list occupied; its
\* create step, unless the call fails, adds exactly one channel to the guild, a
\* voice channel of the category named after the tier; its next step appends
\* that channel's id to the end of the tier's list and leaves the other lists
\* alone; and its next step is sort_channels.
C7_JoinCreatesAndAppends ==
    [][\A i \in Tasks :
         (StepOf(i) /\ tasks[i].kind = "join") =>
            /\ ( /\ tasks[i].pc = "read"
                 /\ Len(Get(cache, tasks[i].tier)) < 6 )
               => tasks'[i].pc = IF Get(cache, tasks[i].tier) = <<>>
                                 THEN "create" ELSE "probe"
            /\ ( /\ tasks[i].pc = "probe"
                 /\ tasks[i].cur[tasks[i].idx] \in occupied )
               => tasks'[i].pc = IF tasks[i].idx = Len(tasks[i].cur)
                                 THEN "create" ELSE "probe"
            /\ tasks[i].pc = "create"
               => \/ tasks'[i] = IdleTask /\ guild' = guild
                  \/ /\ tasks'[i].pc = "push"
                     /\ tasks'[i].newId \notin DOMAIN guild
                     /\ DOMAIN guild' = DOMAIN guild \cup {tasks'[i].newId}
                     /\ \A id \in DOMAIN guild : guild'[id] = guild[id]
                     /\ guild'[tasks'[i].newId].kind = "voice"
                     /\ guild'[tasks'[i].newId].parent
                     /\ guild'[tasks'[i].newId].last = TierGlyph[tasks[i].tier]
            /\ tasks[i].pc = "push"
               => /\ Get(cache', tasks[i].tier)
                        = Append(Get(cache, tasks[i].tier), tasks[i].newId)
                  /\ \A t \in VoiceChannelType \ {tasks[i].tier} :
                        Get(cache', t) = Get(cache, t)
                  /\ tasks'[i].pc = "sort"]_vars

\* check_joined found the one channel of its tier occupied, created a second
\* one and pushed it behind the first.
C7_Witness ==
    \E i \in Tasks :
        /\ init.pc = "ok"
        /\ tasks[i].kind = "join"
        /\ tasks[i].pc = "sort"
        /\ Len(tasks[i].cur) = 1
        /\ tasks[i].cur[1] \in occupied
        /\ cache[tasks[i].tier] = Append(tasks[i].cur, tasks[i].newId)
        /\ tasks[i].newId \in DOMAIN guild

\* C8: after initialize has returned Ok, the step of check_left under the write
\* guard, when the tier's list has more than one member, takes the channel's
\* id out of the list, which gets shorter by one.
C8_LeaveRemovesItsChannel ==
    [][\A i \in Tasks :
         ( /\ StepOf(i)
           /\ init.pc = "ok"
           /\ tasks[i].pc = "retain"
           /\ Len(Get(cache, tasks[i].tier)) > 1 )
         => /\ Len(Get(cache', tasks[i].tier)) = Len(Get(cache, tasks[i].tier)) - 1
            /\ tasks[i].ch \notin Range(Get(cache', tasks[i].tier))]_vars

C10_NoHandlingAfterFailedInit ==
    [][init.pc = "failed" => UNCHANGED <<cache, guild>>]_vars

\* The channels of tier t's list that have no member.
IdleSpares(t) ==
    {k \in 1..Len(Get(cache, t)) : Get(cache, t)[k] \notin occupied}

\* No check_joined or check_left task is in flight.
NoHandlerInProgress == \A i \in Tasks : tasks[i].pc = "idle"

\* C11: whenever initialize has returned Ok and no handler is in progress,
\* every tier's list holds at most one channel without a member.
C11_AtMostOneIdleSpare ==
    (init.pc = "ok" /\ NoHandlerInProgress) =>
        \A t \in VoiceChannelType : Cardinality(IdleSpares(t)) <= 1

\* Task i has sent a request to the remote side and awaits the answer.
RemoteCallInFlight(i) ==
    tasks[i].pc \in {"to_channel", "probe", "create", "delete", "sort", "reorder"}

\* C12: while a check_joined or check_left task awaits a remote call (fetch,
\* create, delete, list, reorder) it holds no guard of channel_cache; the lock
\* is held across an await only by initialize, from its first fetch to its
\* last create.
C12_NoGuardAcrossRemoteCalls ==
    /\ \A i \in Tasks :
           RemoteCallInFlight(i) => lock \notin {Guard("read", i), Guard("write", i)}
    /\ lock # "free" =>
           /\ lock = "initialize"
           /\ init.pc \in {"to_channel", "channels", "create"}

\* check_left awaits its delete call after retain, check_joined awaits the
\* listing of sort_channels after its push, and the lock is free.
C12_Witness ==
    \E i \in Tasks, j \in Tasks :
        /\ init.pc = "ok"
        /\ tasks[i].kind = "leave" /\ tasks[i].pc = "delete"
        /\ tasks[j].kind = "join" /\ tasks[j].pc = "sort"
        /\ tasks[j].newId \in Range(Get(cache, tasks[j].tier))
        /\ lock = "free"

\* C13: when two check_joined tasks of one tier have read the same list and
\* both have created a channel, the push of the second comes after the push of
\* the first and still appends: the two new channels are distinct, both are
\* in the tier's list afterwards, and the list has grown by one more.
C13_ConcurrentJoinsBothAppend ==
    [][\A i \in Tasks, j \in Tasks :
         ( /\ i # j
           /\ StepOf(i)
           /\ tasks[i].kind = "join" /\ tasks[i].pc = "push"
           /\ tasks[j].kind = "join" /\ tasks[j].pc = "sort"
           /\ tasks[j].tier = tasks[i].tier
           /\ tasks[j].cur = tasks[i].cur
           /\ tasks[j].newId \in Range(Get(cache, tasks[j].tier)) )
         => /\ tasks[i].newId # tasks[j].newId
            /\ {tasks[i].newId, tasks[j].newId} \subseteq Range(Get(cache', tasks[i].tier))
            /\ Len(Get(cache', tasks[i].tier)) = Len(Get(cache, tasks[i].tier)) + 1]_vars

\* Two check_joined tasks read the same list of occupied channels, and the
\* tier's list is now that list followed by the two channels they created,
\* both without a member.
C13_Witness ==
    \E i \in Tasks, j \in Tasks :
        /\ i # j
        /\ init.pc = "ok"
        /\ tasks[i].kind = "join" /\ tasks[i].pc = "sort"
        /\ tasks[j].kind = "join" /\ tasks[j].pc = "sort"
        /\ tasks[i].tier = tasks[j].tier
        /\ tasks[i].cur = tasks[j].cur
        /\ tasks[i].cur # <<>>
        /\ Range(tasks[i].cur) \subseteq occupied
        /\ cache[tasks[i].tier] = tasks[i].cur \o <<tasks[i].newId, tasks[j].newId>>
        /\ {tasks[i].newId, tasks[j].newId} \cap occupied = {}

\* C14: the iteration of check_joined's loop that sees a channel of the list
\* without a member ends the loop, and the task then returns: from the moment
\* found_empty is set no step of the task creates a channel, changes
\* channel_cache or calls sort_channels, however many channels of the list
\* were seen occupied before.
C14_SpareFoundIsNoOp ==
    [][\A i \in Tasks :
         (StepOf(i) /\ tasks[i].kind = "join") =>
            /\ (tasks[i].pc = "probe" /\ tasks'[i].found_empty)
               => /\ tasks'[i].pc = "found"
                  /\ tasks[i].cur[tasks[i].idx] \notin occupied
                  /\ UNCHANGED <<cache, guild, position, nextId>>
            /\ tasks[i].found_empty
               => /\ tasks'[i] = IdleTask
                  /\ UNCHANGED <<cache, guild, position, nextId>>]_vars

\* check_joined has seen two occupied channels and then an empty one.
C14_Witness ==
    \E i \in Tasks :
        /\ init.pc = "ok"
        /\ tasks[i].kind = "join"
        /\ tasks[i].pc = "found"
        /\ tasks[i].found_empty
        /\ tasks[i].idx = 3
        /\ {tasks[i].cur[1], tasks[i].cur[2]} \subseteq occupied
        /\ tasks[i].cur[3] \in DOMAIN guild \ occupied

\* C15: the step of check_joined that reads the tier's list returns at once
\* when the list holds 6 ids or more: the task probes no channel, creates
\* none, and channel_cache, the guild and the positions stay as they are.
C15_AtCapacityIsNoOp ==
    [][\A i \in Tasks :
         ( /\ StepOf(i)
           /\ tasks[i].kind = "join"
           /\ tasks[i].pc = "read"
           /\ Len(Get(cache, tasks[i].tier)) >= 6 )
         => /\ tasks'[i] = IdleTask
            /\ UNCHANGED <<cache, guild, position, nextId>>]_vars

\* check_joined is about to read a list of exactly six channels, all
\* occupied, for a join to one of them.
C15_Witness ==
    \E i \in Tasks :
        /\ init.pc = "ok"
        /\ tasks[i].kind = "join"
        /\ tasks[i].pc = "read"
        /\ lock = "free"
        /\ Len(Get(cache, tasks[i].tier)) = 6
        /\ Range(cache[tasks[i].tier]) \subseteq occupied
        /\ tasks[i].ch \in Range(cache[tasks[i].tier])

C17_FailedDeleteKeepsRemoval ==
    [][\A i \in Tasks :
         ( /\ StepOf(i)
           /\ tasks[i].kind = "leave"
           /\ tasks[i].pc = "delete"
           /\ tasks[i].ch \in DOMAIN guild' )
         => /\ tasks'[i] = IdleTask
            /\ UNCHANGED <<cache, guild, position, nextId>>
            /\ tasks[i].ch \notin Range(Get(cache', tasks[i].tier))]_vars

\* No handler is in progress and a voice channel of the category named after
\* a tier that initialize had loaded is in the guild, empty, but no longer in
\* the tier's list: its delete call failed.
C17_Witness ==
    /\ init.pc = "ok"
    /\ NoHandlerInProgress
    /\ \E c \in DOMAIN guild \cap DOMAIN Scenarios[scenario].guild :
           /\ guild[c].kind = "voice" /\ guild[c].parent /\ Managed(c)
           /\ c \notin occupied
           /\ \A t \in DOMAIN cache : c \notin Range(cache[t])

\* C18: an iteration of check_joined's loop over a channel that is in the
\* guild and has no member ends the task, with the no-op of C14 when the
\* fetch succeeds and with an abort when it fails; the task never goes on to
\* the next channel or to create_channel.
C18_FailedProbeAborts ==
    [][\A i \in Tasks :
         ( /\ StepOf(i)
           /\ tasks[i].kind = "join"
           /\ tasks[i].pc = "probe"
           /\ tasks[i].cur[tasks[i].idx] \in DOMAIN guild \ occupied )
         => tasks'[i].pc \notin {"probe", "create"}]_vars

\* C20: after initialize has returned Ok, check_left goes from its write guard
\* to the delete call only for a channel whose id was in the tier's list when
\* the guard was taken.
C20_LeaveDeletesOnlyTracked ==
    [][\A i \in Tasks :
         ( /\ StepOf(i)
           /\ init.pc = "ok"
           /\ tasks[i].kind = "leave"
           /\ tasks[i].pc = "retain"
           /\ tasks'[i].pc = "delete" )
         => tasks[i].ch \in Range(Get(cache, tasks[i].tier))]_vars

\* The voice channels of the category whose name ends with tier t's
\* identifier, in guild g.
ChannelsOfTier(g, t) ==
    {id \in DOMAIN g : g[id].kind = "voice" /\ g[id].parent /\ g[id].last = identifier(t)}

NoDuplicates(seq) ==
    \A j \in 1..Len(seq), k \in 1..Len(seq) : seq[j] = seq[k] => j = k

\* C19: when initialize drops its write guard after its last create, every
\* tier's list holds each of the category's voice channels of that tier,
\* once, and nothing else, whatever channel_cache held when initialize began.
C19_InitializeRebuildsPool ==
    [][(lock = "initialize" /\ lock' = "free" /\ init'.pc = "sort") =>
          \A t \in VoiceChannelType :
              /\ NoDuplicates(Get(cache', t))
              /\ Range(Get(cache', t)) = ChannelsOfTier(guild', t)]_vars

====
